---- MODULE Spec2Model ----
(***************************************************************************)
(* Depth measurement and depth normalisation of nested containers          *)
(* (list_utils.validation.depth, list_utils.preparation.depth).            *)
(*                                                                         *)
(* A Python value is a record with a kind k.  A container carries `items`, *)
(* the sequence its iterator yields (for a dict: the keys), and a dict     *)
(* also carries `vals`, the sequence yielded by .values().  An exception   *)
(* is a record of kind "ValueError".                                       *)
(***************************************************************************)
EXTENDS Integers, Sequences, FiniteSets, TLC

(***************************************************************************)
(* Bounds of the explored inputs.                                          *)
(***************************************************************************)
MaxDepth == 2
MaxWidth == 2
MaxTarget == 3
MaxNegative == 1
MaxCalls == 2
MaxArgs == 2
MaxStacked == 1

(***************************************************************************)
(* Python values.                                                          *)
(***************************************************************************)
PyInt(n) == [k |-> "int", a |-> n]
PyStr(n) == [k |-> "str", a |-> n]
PyBytes(n) == [k |-> "bytes", a |-> n]
PyRange(n) == [k |-> "range", a |-> n]
PyList(s) == [k |-> "list", items |-> s]
PyTuple(s) == [k |-> "tuple", items |-> s]
PySet(s) == [k |-> "set", items |-> s]
PyDict(ks, vs) == [k |-> "dict", items |-> ks, vals |-> vs]
PyNone == [k |-> "NoneType"]
Unset == [k |-> "unset"]

ValueError(m, info) == [k |-> "ValueError", msg |-> m, info |-> info]
IsRaise(v) == v.k = "ValueError"
TypeError(m, info) == [k |-> "TypeError", msg |-> m, info |-> info]

\* collections.abc.Iterable / Sized membership of the modelled kinds
IterableKinds == {"str", "bytes", "range", "generator", "list", "tuple", "set", "dict"}
SizedKinds == {"str", "bytes", "range", "list", "tuple", "set", "dict"}

is_strict_container(x) ==
    /\ x.k \in IterableKinds
    /\ x.k \in SizedKinds
    /\ x.k \notin {"str", "bytes", "generator", "range"}

type_name(x) == x.k

MaxOf(S, default) == IF S = {} THEN default ELSE CHOOSE m \in S : \A n \in S : n <= m

(***************************************************************************)
(* validation/depth.py                                                     *)
(***************************************************************************)
RECURSIVE get_max_depth(_, _, _, _)
\* a variant that reads the values of the outermost dict only
RECURSIVE max_depth_values_at_top_only(_, _, _, _)
max_depth_values_at_top_only(x, sd, bd, dv) ==
    IF x.k = "str" THEN sd
    ELSE IF x.k = "bytes" THEN bd
    ELSE IF ~is_strict_container(x) THEN 0
    ELSE LET items == IF x.k = "dict" /\ dv THEN x.vals ELSE x.items
         IN  1 + MaxOf({max_depth_values_at_top_only(items[i], sd, bd, FALSE) :
                           i \in 1..Len(items)}, 0)

\* a variant whose max() defaults to -1, so that an empty container measures 0
RECURSIVE max_depth_empty_is_zero(_, _, _, _)
max_depth_empty_is_zero(x, sd, bd, dv) ==
    IF x.k = "str" THEN sd
    ELSE IF x.k = "bytes" THEN bd
    ELSE IF ~is_strict_container(x) THEN 0
    ELSE LET items == IF x.k = "dict" /\ dv THEN x.vals ELSE x.items
         IN  1 + MaxOf({max_depth_empty_is_zero(items[i], sd, bd, dv) :
                           i \in 1..Len(items)}, -1)

get_max_depth(x, sd, bd, dv) ==
    IF x.k = "str" THEN sd
    ELSE IF x.k = "bytes" THEN bd
    ELSE IF ~is_strict_container(x) THEN 0
    ELSE LET items == IF x.k = "dict" /\ dv THEN x.vals ELSE x.items
         IN  1 + MaxOf({get_max_depth(items[i], sd, bd, dv) : i \in 1..Len(items)}, 0)

\* is_depth_at_least with the number of invocations it makes: the for loop
\* returns at the first child that answers True.
RECURSIVE is_depth_at_least_run(_, _, _, _, _)
RECURSIVE scan_items(_, _, _, _, _, _, _)
\* a variant that visits every child before it answers: any(...) over a list
RECURSIVE scan_every_item(_, _, _, _, _, _, _)
scan_every_item(items, i, depth, sd, bd, dv, calls) ==
    IF i > Len(items) THEN [ret |-> FALSE, calls |-> calls]
    ELSE LET r == is_depth_at_least_run(items[i], depth - 1, sd, bd, dv)
             rest == scan_every_item(items, i + 1, depth, sd, bd, dv, calls + r.calls)
         IN  [ret |-> r.ret \/ rest.ret, calls |-> rest.calls]

scan_items(items, i, depth, sd, bd, dv, calls) ==
    IF i > Len(items) THEN [ret |-> FALSE, calls |-> calls]
    ELSE LET r == is_depth_at_least_run(items[i], depth - 1, sd, bd, dv)
         IN  IF r.ret THEN [ret |-> TRUE, calls |-> calls + r.calls]
             ELSE scan_items(items, i + 1, depth, sd, bd, dv, calls + r.calls)

is_depth_at_least_run(x, depth, sd, bd, dv) ==
    IF depth <= 0 THEN [ret |-> TRUE, calls |-> 1]
    ELSE IF x.k = "str" THEN [ret |-> sd >= depth, calls |-> 1]
    ELSE IF x.k = "bytes" THEN [ret |-> bd >= depth, calls |-> 1]
    ELSE IF ~is_strict_container(x) THEN [ret |-> FALSE, calls |-> 1]
    ELSE LET items == IF x.k = "dict" /\ dv THEN x.vals ELSE x.items
         IN  scan_items(items, 1, depth, sd, bd, dv, 1)

is_depth_at_least(x, depth, sd, bd, dv) == is_depth_at_least_run(x, depth, sd, bd, dv).ret

(***************************************************************************)
(* preparation/depth.py: helpers                                           *)
(***************************************************************************)
UnwrapPolicy == {"STRICT", "IGNORE_EXTRA", "MERGE", "ERROR_ON_EXTRA"}

\* a variant that returns list(obj) instead of [obj]
list_of_elements(obj) ==
    IF is_strict_container(obj) THEN PyList(obj.items) ELSE PyList(<<obj>>)

add_list_layer(obj) == PyList(<<obj>>)

RECURSIVE _wrap_to_depth(_, _)
\* a variant whose loop runs once too often
RECURSIVE wrap_one_too_many(_, _)
wrap_one_too_many(x, layers) ==
    IF layers < 0 THEN x ELSE wrap_one_too_many(add_list_layer(x), layers - 1)

_wrap_to_depth(x, layers) ==
    IF layers <= 0 THEN x ELSE _wrap_to_depth(add_list_layer(x), layers - 1)

\* merged = []; for item in x: extend if container else append
RECURSIVE merge_items(_, _, _)
\* a variant that flattens every nested layer of a child, not one
RECURSIVE merge_flattens_fully(_, _, _)
merge_flattens_fully(items, i, merged) ==
    IF i > Len(items) THEN merged
    ELSE merge_flattens_fully(items, i + 1,
                     IF is_strict_container(items[i])
                     THEN merge_flattens_fully(items[i].items, 1, merged)
                     ELSE Append(merged, items[i]))

\* the elements iteration over a string or bytes value would yield
Chars(s) == <<[k |-> s.k, a |-> 10 * s.a + 1], [k |-> s.k, a |-> 10 * s.a + 2]>>

\* a variant that extends with every iterable child, strings and bytes too
RECURSIVE merge_splices_strings(_, _, _)
merge_splices_strings(items, i, merged) ==
    IF i > Len(items) THEN merged
    ELSE merge_splices_strings(items, i + 1,
                     IF is_strict_container(items[i]) THEN merged \o items[i].items
                     ELSE IF items[i].k \in {"str", "bytes"} THEN merged \o Chars(items[i])
                     ELSE Append(merged, items[i]))

merge_items(items, i, merged) ==
    IF i > Len(items) THEN merged
    ELSE merge_items(items, i + 1,
                     IF is_strict_container(items[i])
                     THEN merged \o items[i].items
                     ELSE Append(merged, items[i]))

\* a variant whose single-item branch returns the container as a list
unwrap_keeps_layer(x, policy) ==
    IF ~is_strict_container(x)
    THEN ValueError("Cannot unwrap non-container object", [type |-> type_name(x)])
    ELSE LET size == Len(x.items) IN
         IF policy \in {"STRICT", "ERROR_ON_EXTRA"}
         THEN IF size # 1
              THEN ValueError("Expected single-item container", [size |-> size, policy |-> policy])
              ELSE PyList(x.items)
         ELSE IF policy = "IGNORE_EXTRA"
         THEN IF size = 0
              THEN ValueError("Cannot unwrap empty container", [size |-> 0])
              ELSE x.items[1]
         ELSE PyList(merge_items(x.items, 1, <<>>))

\* a variant whose IGNORE_EXTRA branch keeps the last item
unwrap_takes_last(x, policy) ==
    IF ~is_strict_container(x)
    THEN ValueError("Cannot unwrap non-container object", [type |-> type_name(x)])
    ELSE LET size == Len(x.items) IN
         IF policy \in {"STRICT", "ERROR_ON_EXTRA"}
         THEN IF size # 1
              THEN ValueError("Expected single-item container", [size |-> size, policy |-> policy])
              ELSE x.items[1]
         ELSE IF policy = "IGNORE_EXTRA"
         THEN IF size = 0
              THEN ValueError("Cannot unwrap empty container", [size |-> 0])
              ELSE x.items[size]
         ELSE PyList(merge_items(x.items, 1, <<>>))

\* a variant whose STRICT branch only rejects more than one item and reads
\* the first item with a default, next(iter(x), None)
unwrap_accepts_empty(x, policy) ==
    IF ~is_strict_container(x)
    THEN ValueError("Cannot unwrap non-container object", [type |-> type_name(x)])
    ELSE LET size == Len(x.items) IN
         IF policy \in {"STRICT", "ERROR_ON_EXTRA"}
         THEN IF size > 1
              THEN ValueError("Expected single-item container", [size |-> size, policy |-> policy])
              ELSE IF size = 0 THEN PyNone ELSE x.items[1]
         ELSE IF policy = "IGNORE_EXTRA"
         THEN IF size = 0
              THEN ValueError("Cannot unwrap empty container", [size |-> 0])
              ELSE x.items[1]
         ELSE PyList(merge_items(x.items, 1, <<>>))

\* a variant that hands back a value it cannot unwrap instead of raising
unwrap_passes_leaf(x, policy) ==
    IF ~is_strict_container(x) THEN x
    ELSE LET size == Len(x.items) IN
         IF policy \in {"STRICT", "ERROR_ON_EXTRA"}
         THEN IF size # 1
              THEN ValueError("Expected single-item container", [size |-> size, policy |-> policy])
              ELSE x.items[1]
         ELSE IF policy = "IGNORE_EXTRA"
         THEN IF size = 0
              THEN ValueError("Cannot unwrap empty container", [size |-> 0])
              ELSE x.items[1]
         ELSE PyList(merge_items(x.items, 1, <<>>))

\* a variant whose IGNORE_EXTRA branch rejects extra items as STRICT does
unwrap_ignore_extra_rejects(x, policy) ==
    IF ~is_strict_container(x)
    THEN ValueError("Cannot unwrap non-container object", [type |-> type_name(x)])
    ELSE LET size == Len(x.items) IN
         IF policy \in {"STRICT", "ERROR_ON_EXTRA", "IGNORE_EXTRA"}
         THEN IF size # 1
              THEN ValueError("Expected single-item container", [size |-> size, policy |-> policy])
              ELSE x.items[1]
         ELSE PyList(merge_items(x.items, 1, <<>>))

_unwrap_one_layer(x, policy) ==
    IF ~is_strict_container(x)
    THEN ValueError("Cannot unwrap non-container object", [type |-> type_name(x)])
    ELSE LET size == Len(x.items) IN
         IF policy \in {"STRICT", "ERROR_ON_EXTRA"}
         THEN IF size # 1
              THEN ValueError("Expected single-item container", [size |-> size, policy |-> policy])
              ELSE x.items[1]
         ELSE IF policy = "IGNORE_EXTRA"
         THEN IF size = 0
              THEN ValueError("Cannot unwrap empty container", [size |-> 0])
              ELSE x.items[1]
         ELSE PyList(merge_items(x.items, 1, <<>>))

\* for _ in range(layers): x = _unwrap_one_layer(x, policy); an exception
\* leaves the loop.
RECURSIVE _unwrap_to_depth(_, _, _)
_unwrap_to_depth(x, layers, policy) ==
    IF layers <= 0 THEN x
    ELSE LET y == _unwrap_one_layer(x, policy)
         IN  IF IsRaise(y) THEN y ELSE _unwrap_to_depth(y, layers - 1, policy)

\* the first exception raised while a list comprehension is evaluated left to
\* right, or the list of the results
FirstRaise(rs) ==
    LET bad == {i \in 1..Len(rs) : IsRaise(rs[i])}
    IN  IF bad = {} THEN PyList(rs)
        ELSE rs[CHOOSE i \in bad : \A j \in bad : i <= j]

RECURSIVE _fix_exact_depth(_, _, _, _)
\* a variant whose base case adds a layer instead of returning x
RECURSIVE fix_exact_wraps_leaf(_, _, _, _)
fix_exact_wraps_leaf(x, depth, sd, bd) ==
    IF depth = 0 THEN add_list_layer(x)
    ELSE IF x.k = "str" /\ sd = 1 /\ depth = 1 THEN x
    ELSE IF x.k = "bytes" /\ bd = 1 /\ depth = 1 THEN x
    ELSE IF ~is_strict_container(x)
    THEN ValueError("Invalid structure", [depth |-> depth, type |-> type_name(x)])
    ELSE FirstRaise([i \in 1..Len(x.items) |->
                         fix_exact_wraps_leaf(x.items[i], depth - 1, sd, bd)])

\* a variant that repairs a shallow element by wrapping it instead of raising
RECURSIVE fix_exact_repairs(_, _, _, _)
fix_exact_repairs(x, depth, sd, bd) ==
    IF depth = 0 THEN x
    ELSE IF x.k = "str" /\ sd = 1 /\ depth = 1 THEN x
    ELSE IF x.k = "bytes" /\ bd = 1 /\ depth = 1 THEN x
    ELSE IF ~is_strict_container(x) THEN _wrap_to_depth(x, depth)
    ELSE FirstRaise([i \in 1..Len(x.items) |->
                         fix_exact_repairs(x.items[i], depth - 1, sd, bd)])

_fix_exact_depth(x, depth, sd, bd) ==
    IF depth = 0 THEN x
    ELSE IF x.k = "str" /\ sd = 1 /\ depth = 1 THEN x
    ELSE IF x.k = "bytes" /\ bd = 1 /\ depth = 1 THEN x
    ELSE IF ~is_strict_container(x)
    THEN ValueError("Invalid structure", [depth |-> depth, type |-> type_name(x)])
    ELSE FirstRaise([i \in 1..Len(x.items) |->
                         _fix_exact_depth(x.items[i], depth - 1, sd, bd)])

RECURSIVE _ensure_depth_inside_out(_, _, _, _)
\* a variant that recurses into the children without decrementing the depth
RECURSIVE inside_out_no_decrement(_, _, _, _)
inside_out_no_decrement(x, depth, sd, bd) ==
    IF depth = 0 THEN x
    ELSE IF x.k = "str"
    THEN IF sd = 0 THEN _wrap_to_depth(x, depth)
         ELSE IF depth = 1 THEN x ELSE _wrap_to_depth(x, depth - 1)
    ELSE IF x.k = "bytes"
    THEN IF bd = 0 THEN _wrap_to_depth(x, depth)
         ELSE IF depth = 1 THEN x ELSE _wrap_to_depth(x, depth - 1)
    ELSE IF ~is_strict_container(x) THEN _wrap_to_depth(x, depth)
    ELSE PyList([i \in 1..Len(x.items) |->
                  inside_out_no_decrement(x.items[i], depth, sd, bd)])

\* a variant that strips single-item layers left over at remaining depth 0
RECURSIVE inside_out_strips_excess(_, _, _, _)
inside_out_strips_excess(x, depth, sd, bd) ==
    IF depth = 0
    THEN IF is_strict_container(x) /\ Len(x.items) = 1
         THEN inside_out_strips_excess(x.items[1], 0, sd, bd)
         ELSE x
    ELSE IF x.k = "str"
    THEN IF sd = 0 THEN _wrap_to_depth(x, depth)
         ELSE IF depth = 1 THEN x ELSE _wrap_to_depth(x, depth - 1)
    ELSE IF x.k = "bytes"
    THEN IF bd = 0 THEN _wrap_to_depth(x, depth)
         ELSE IF depth = 1 THEN x ELSE _wrap_to_depth(x, depth - 1)
    ELSE IF ~is_strict_container(x) THEN _wrap_to_depth(x, depth)
    ELSE PyList([i \in 1..Len(x.items) |->
                  inside_out_strips_excess(x.items[i], depth - 1, sd, bd)])

\* a variant that rebuilds each container in its own kind: type(x)(...)
RECURSIVE inside_out_keeps_kind(_, _, _, _)
inside_out_keeps_kind(x, depth, sd, bd) ==
    IF depth = 0 THEN x
    ELSE IF x.k = "str"
    THEN IF sd = 0 THEN _wrap_to_depth(x, depth)
         ELSE IF depth = 1 THEN x ELSE _wrap_to_depth(x, depth - 1)
    ELSE IF x.k = "bytes"
    THEN IF bd = 0 THEN _wrap_to_depth(x, depth)
         ELSE IF depth = 1 THEN x ELSE _wrap_to_depth(x, depth - 1)
    ELSE IF ~is_strict_container(x) THEN _wrap_to_depth(x, depth)
    ELSE [x EXCEPT !.items = [i \in 1..Len(x.items) |->
                                 inside_out_keeps_kind(x.items[i], depth - 1, sd, bd)]]

_ensure_depth_inside_out(x, depth, sd, bd) ==
    IF depth = 0 THEN x
    ELSE IF x.k = "str"
    THEN IF sd = 0 THEN _wrap_to_depth(x, depth)
         ELSE IF depth = 1 THEN x ELSE _wrap_to_depth(x, depth - 1)
    ELSE IF x.k = "bytes"
    THEN IF bd = 0 THEN _wrap_to_depth(x, depth)
         ELSE IF depth = 1 THEN x ELSE _wrap_to_depth(x, depth - 1)
    ELSE IF ~is_strict_container(x) THEN _wrap_to_depth(x, depth)
    ELSE PyList([i \in 1..Len(x.items) |->
                  _ensure_depth_inside_out(x.items[i], depth - 1, sd, bd)])

\* _ensure_depth_outside_in: measure once, then wrap, unwrap or validate
_ensure_depth_outside_in(x, depth, dv, policy, sd, bd) ==
    LET current == get_max_depth(x, sd, bd, dv) IN
    IF current < depth THEN _wrap_to_depth(x, depth - current)
    ELSE IF current > depth
    THEN LET r == _unwrap_to_depth(x, current - depth, policy)
         IN  IF IsRaise(r)
             THEN ValueError("Cannot reduce depth",
                             [from |-> current, to |-> depth, cause |-> r])
             ELSE r
    ELSE _fix_exact_depth(x, depth, sd, bd)

\* ensure_uniform_depth as one function of its arguments: the value it
\* returns or the exception it raises
ensure_uniform_depth(x, depth, io, dv, policy, sd, bd) ==
    IF depth < 0 THEN ValueError("depth must be >= 0", [depth |-> depth])
    ELSE IF io THEN _ensure_depth_inside_out(x, depth, sd, bd)
    ELSE _ensure_depth_outside_in(x, depth, dv, policy, sd, bd)

(***************************************************************************)
(* preparation/args_depth.py.  A depth specification is [t, v]: t the      *)
(* Python type of the object, d the integer of an int specification, v the *)
(* sequence of integers of a list or tuple, or the function from argument  *)
(* indices (counted from 0) to integers of a dict.                         *)
(***************************************************************************)
IntSpec(d) == [t |-> "int", d |-> d, v |-> <<>>]
ListSpec(ds) == [t |-> "list", d |-> 0, v |-> ds]
TupleSpec(ds) == [t |-> "tuple", d |-> 0, v |-> ds]
DictSpec(m) == [t |-> "dict", d |-> 0, v |-> m]

_normalize_depth_spec(depth_spec, num_args) ==
    IF depth_spec.t = "int" THEN [i \in 0..(num_args - 1) |-> depth_spec.d]
    ELSE IF depth_spec.t = "list"
    THEN [i \in 0..(Len(depth_spec.v) - 1) |-> depth_spec.v[i + 1]]
    ELSE IF depth_spec.t = "dict" THEN depth_spec.v
    ELSE TypeError("depth must be int, list, or dict", [type |-> depth_spec.t])

\* the decorated function: it reports the positional and keyword arguments
\* it was called with
func(a, kw) == PyTuple(<<PyList(a), kw>>)


(***************************************************************************)
(* The explored inputs.  Chains nest one child per layer: the two          *)
(* innermost layers are a list, a tuple or a dict holding the child as its *)
(* value (the innermost also a set or a dict keyed by the leaf), the       *)
(* layers above them are lists.  Wide lists put up to MaxWidth - 1 filler  *)
(* siblings before or after a chain, at the top or one layer down.  The    *)
(* literal values of the repository's tests are added to them.             *)
(***************************************************************************)
Leaves == {PyInt(1), PyStr(1), PyBytes(1)}
Fillers == {PyInt(2), PyList(<<PyInt(2)>>)}

RECURSIVE Rep(_, _)
Rep(f, n) == IF n <= 0 THEN <<>> ELSE <<f>> \o Rep(f, n - 1)

Layer(P) ==
    {PyList(<<>>)}
    \cup {PyList(<<v>>) : v \in P}
    \cup {PyTuple(<<v>>) : v \in P}
    \cup {PyDict(<<PyInt(1)>>, <<v>>) : v \in P}

OneLayer ==
    Leaves \cup Layer(Leaves)
        \cup {PySet(<<v>>) : v \in Leaves}
        \cup {PyDict(<<v>>, <<PyInt(1)>>) : v \in Leaves}

TwoLayers == OneLayer \cup Layer(OneLayer)

RECURSIVE Chain(_)
Chain(n) ==
    IF n <= 0 THEN Leaves
    ELSE IF n = 1 THEN OneLayer
    ELSE IF n = 2 THEN TwoLayers
    ELSE Chain(n - 1) \cup {PyList(<<v>>) : v \in Chain(n - 1)}

Wide(P) ==
    UNION {{PyList(<<v>> \o Rep(f, w - 1)), PyList(Rep(f, w - 1) \o <<v>>)} :
              <<v, f, w>> \in P \X Fillers \X (2..MaxWidth)}

\* literal values of the repository's tests and documentation
L1(a) == PyList(<<PyInt(a)>>)
Examples == {
    PyRange(4),
    PyList(<<PyInt(1), PyInt(2), PyInt(3)>>),
    PyTuple(<<PyInt(1), PyInt(2), PyInt(3)>>),
    PySet(<<PyInt(1), PyInt(2)>>),
    PyList(<<PyStr(1), PyStr(2), PyStr(3)>>),
    PyList(<<L1(1), L1(2), L1(3)>>),
    PyList(<<PyList(<<PyInt(1), PyInt(2), PyInt(3)>>)>>),
    PyList(<<PyList(<<>>), PyList(<<>>)>>),
    PyTuple(<<>>),
    PySet(<<>>),
    PyDict(<<>>, <<>>),
    PyList(<<PyInt(1), L1(2), PyList(<<L1(3)>>)>>),
    PyList(<<PyList(<<PyInt(1), PyInt(2)>>), PyInt(3), L1(4)>>),
    PyList(<<PyList(<<L1(1), L1(2)>>), PyList(<<L1(3), L1(4)>>)>>),
    PyList(<<PyList(<<PyList(<<PyInt(1), PyInt(2)>>), PyList(<<PyInt(3), PyInt(4)>>)>>),
             PyList(<<PyList(<<PyInt(5), PyInt(6)>>)>>)>>),
    PyList(<<L1(1), _wrap_to_depth(PyInt(1), 5)>>),
    _wrap_to_depth(PyInt(1), 5),
    PyTuple(<<PyInt(1), PyTuple(<<PyInt(2), PyTuple(<<PyInt(3)>>)>>)>>),
    PyDict(<<PyStr(1), PyStr(2)>>,
           <<PyList(<<PyInt(1), PyInt(2)>>), PyList(<<PyInt(3), PyInt(4)>>)>>),
    PyDict(<<PyTuple(<<PyInt(1), PyInt(2)>>)>>, <<PyInt(5)>>),
    PyList(<<PyDict(<<PyStr(1)>>, <<PyList(<<PyList(<<PyStr(2)>>)>>)>>)>>)
}

Universe ==
    Chain(MaxDepth)
    \cup Wide(OneLayer)
    \cup {PyList(<<u>>) : u \in Wide(Leaves)}
    \cup Examples

Depths == (0 - MaxNegative)..MaxTarget
Operations == {"ensure_uniform_depth", "get_max_depth", "is_depth_at_least"}

(***************************************************************************)
(* One call of ensure_uniform_depth, and calls made again on its result.   *)
(***************************************************************************)
VARIABLES op, x, depth, inside_out, depth_of_dict_values, unwrap_policy,
          str_depth, bytes_depth, pc, current_depth, work, layers,
          result, error, probe, history,
          depth_spec, args, kwargs, wrapper, depth_map, new_args, index,
          func_calls, below, frames

params == <<op, inside_out, depth_of_dict_values, unwrap_policy, str_depth, bytes_depth>>
vars == <<op, x, depth, inside_out, depth_of_dict_values, unwrap_policy,
          str_depth, bytes_depth, pc, current_depth, work, layers,
          result, error, probe, history,
          depth_spec, args, kwargs, wrapper, depth_map, new_args, index,
          func_calls, below, frames>>

\* the state of one call of a decorated function, and of the engine
wrapper_vars == <<depth_spec, args, kwargs, wrapper, depth_map, new_args, index, func_calls,
                  below, frames>>
engine_vars == <<x, depth, current_depth, work, layers, probe, history>>

\* inside_out and unwrap_policy are parameters of ensure_uniform_depth only
Init ==
    /\ op \in Operations
    /\ x \in Universe
    /\ depth \in Depths
    /\ inside_out \in (IF op = "ensure_uniform_depth" THEN BOOLEAN ELSE {FALSE})
    /\ depth_of_dict_values \in BOOLEAN
    /\ unwrap_policy \in (IF op = "ensure_uniform_depth" THEN UnwrapPolicy ELSE {"STRICT"})
    /\ str_depth \in {0, 1}
    /\ bytes_depth \in {0, 1}
    /\ pc = "entry"
    /\ current_depth = -1
    /\ work = Unset
    /\ layers = 0
    /\ result = Unset
    /\ error = Unset
    /\ probe = Unset
    /\ history = <<>>
    /\ depth_spec = Unset
    /\ args = <<>>
    /\ kwargs = PyDict(<<>>, <<>>)
    /\ wrapper = "none"
    /\ depth_map = <<>>
    /\ new_args = <<>>
    /\ index = 0
    /\ func_calls = <<>>
    /\ below = <<>>
    /\ frames = <<>>

\* get_max_depth(x, str_depth, bytes_depth, depth_of_dict_values=...)
GetMaxDepth ==
    /\ op = "get_max_depth"
    /\ pc = "entry"
    /\ result' = PyInt(get_max_depth(x, str_depth, bytes_depth, depth_of_dict_values))
    /\ pc' = "returned"
    /\ UNCHANGED <<wrapper_vars, x, depth, params, current_depth, work, layers, error, probe, history>>

\* is_depth_at_least(x, depth, str_depth, bytes_depth, depth_of_dict_values=...)
IsDepthAtLeast ==
    /\ op = "is_depth_at_least"
    /\ pc = "entry"
    /\ probe' = is_depth_at_least_run(x, depth, str_depth, bytes_depth, depth_of_dict_values)
    /\ result' = [k |-> "bool", a |-> probe'.ret]
    /\ pc' = "returned"
    /\ UNCHANGED <<wrapper_vars, x, depth, params, current_depth, work, layers, error, history>>

\* if depth < 0: raise ValueError
RejectNegativeDepth ==
    /\ op = "ensure_uniform_depth"
    /\ pc = "entry"
    /\ depth < 0
    /\ pc' = "raised"
    /\ error' = ValueError("depth must be >= 0", [depth |-> depth])
    /\ UNCHANGED <<wrapper_vars, x, depth, params, current_depth, work, layers, result, probe, history>>

\* a variant that rebuilds a dict from its values when depth_of_dict_values
\* is set
InsideOutReadsValues ==
    /\ op = "ensure_uniform_depth"
    /\ pc = "entry"
    /\ depth >= 0
    /\ inside_out
    /\ result' = _ensure_depth_inside_out(
                     IF x.k = "dict" /\ depth_of_dict_values THEN PyList(x.vals) ELSE x,
                     depth, str_depth, bytes_depth)
    /\ pc' = "returned"
    /\ UNCHANGED <<wrapper_vars, x, depth, params, current_depth, work, layers, error, probe, history>>

\* a variant that rejects a value deeper than the target, as outside-in
\* STRICT mode may
InsideOutRejectsDeep ==
    /\ op = "ensure_uniform_depth"
    /\ pc = "entry"
    /\ depth >= 0
    /\ inside_out
    /\ IF get_max_depth(x, str_depth, bytes_depth, FALSE) > depth
       THEN /\ error' = ValueError("Cannot reduce depth",
                                   [from |-> get_max_depth(x, str_depth, bytes_depth, FALSE),
                                    to |-> depth])
            /\ pc' = "raised"
            /\ UNCHANGED result
       ELSE /\ result' = _ensure_depth_inside_out(x, depth, str_depth, bytes_depth)
            /\ pc' = "returned"
            /\ UNCHANGED error
    /\ UNCHANGED <<wrapper_vars, x, depth, params, current_depth, work, layers, probe, history>>

\* if inside_out: return _ensure_depth_inside_out(x, depth, str_depth, bytes_depth)
InsideOut ==
    /\ op = "ensure_uniform_depth"
    /\ pc = "entry"
    /\ depth >= 0
    /\ inside_out
    /\ result' = _ensure_depth_inside_out(x, depth, str_depth, bytes_depth)
    /\ pc' = "returned"
    /\ UNCHANGED <<wrapper_vars, x, depth, params, current_depth, work, layers, error, probe, history>>

\* a variant that measures before the depth is validated
MeasureUnchecked ==
    /\ op = "ensure_uniform_depth"
    /\ pc = "entry"
    /\ ~inside_out
    /\ current_depth' = get_max_depth(x, str_depth, bytes_depth, depth_of_dict_values)
    /\ pc' = "measured"
    /\ UNCHANGED <<wrapper_vars, x, depth, params, work, layers, result, error, probe, history>>

\* _ensure_depth_outside_in: current_depth = get_max_depth(...)
Measure ==
    /\ op = "ensure_uniform_depth"
    /\ pc = "entry"
    /\ depth >= 0
    /\ ~inside_out
    /\ current_depth' = get_max_depth(x, str_depth, bytes_depth, depth_of_dict_values)
    /\ pc' = "measured"
    /\ UNCHANGED <<wrapper_vars, x, depth, params, work, layers, result, error, probe, history>>

\* if current_depth < depth: return _wrap_to_depth(x, depth - current_depth)
WrapShallow ==
    /\ pc = "measured"
    /\ current_depth < depth
    /\ result' = _wrap_to_depth(x, depth - current_depth)
    /\ pc' = "returned"
    /\ UNCHANGED <<wrapper_vars, x, depth, params, current_depth, work, layers, error, probe, history>>

\* the value and the count the next iteration of _unwrap_to_depth's loop sees
LoopValue == IF pc = "measured" THEN x ELSE work
LoopLeft == IF pc = "measured" THEN current_depth - depth ELSE layers
InUnwrapLoop ==
    \/ pc = "measured" /\ current_depth > depth
    \/ pc = "unwrapping" /\ layers > 0

\* one iteration of the loop of _unwrap_to_depth that removes a layer
UnwrapLayer ==
    /\ InUnwrapLoop
    /\ ~IsRaise(_unwrap_one_layer(LoopValue, unwrap_policy))
    /\ work' = _unwrap_one_layer(LoopValue, unwrap_policy)
    /\ layers' = LoopLeft - 1
    /\ pc' = "unwrapping"
    /\ UNCHANGED <<wrapper_vars, x, depth, params, current_depth, result, error, probe, history>>

\* a variant that returns what has been unwrapped so far when a step fails
UnwrapFailsReturnsPartial ==
    /\ InUnwrapLoop
    /\ IsRaise(_unwrap_one_layer(LoopValue, unwrap_policy))
    /\ result' = LoopValue
    /\ pc' = "returned"
    /\ UNCHANGED <<wrapper_vars, x, depth, params, current_depth, work, layers, error, probe, history>>

\* one iteration that raises: except ValueError as e: raise ValueError(...) from e
UnwrapFails ==
    /\ InUnwrapLoop
    /\ IsRaise(_unwrap_one_layer(LoopValue, unwrap_policy))
    /\ error' = ValueError("Cannot reduce depth",
                           [from |-> current_depth, to |-> depth,
                            cause |-> _unwrap_one_layer(LoopValue, unwrap_policy)])
    /\ pc' = "raised"
    /\ work' = Unset
    /\ layers' = 0
    /\ UNCHANGED <<wrapper_vars, x, depth, params, current_depth, result, probe, history>>

\* the loop of _unwrap_to_depth is over: return x
ReturnUnwrapped ==
    /\ pc = "unwrapping"
    /\ layers = 0
    /\ result' = work
    /\ pc' = "returned"
    /\ UNCHANGED <<wrapper_vars, x, depth, params, current_depth, work, layers, error, probe, history>>

\* a variant whose validation reads the values of a dict when the depth was
\* measured over them
FixExactOverValues ==
    /\ pc = "measured"
    /\ current_depth = depth
    /\ LET y == IF x.k = "dict" /\ depth_of_dict_values THEN PyList(x.vals) ELSE x
           r == _fix_exact_depth(y, depth, str_depth, bytes_depth)
       IN  IF IsRaise(r)
           THEN /\ error' = r
                /\ pc' = "raised"
                /\ UNCHANGED result
           ELSE /\ result' = r
                /\ pc' = "returned"
                /\ UNCHANGED error
    /\ UNCHANGED <<wrapper_vars, x, depth, params, current_depth, work, layers, probe, history>>

\* return _fix_exact_depth(x, depth, str_depth, bytes_depth)
FixExact ==
    /\ pc = "measured"
    /\ current_depth = depth
    /\ LET r == _fix_exact_depth(x, depth, str_depth, bytes_depth)
       IN  IF IsRaise(r)
           THEN /\ error' = r
                /\ pc' = "raised"
                /\ UNCHANGED result
           ELSE /\ result' = r
                /\ pc' = "returned"
                /\ UNCHANGED error
    /\ UNCHANGED <<wrapper_vars, x, depth, params, current_depth, work, layers, probe, history>>

\* the caller applies ensure_uniform_depth to the returned value, with the
\* same options: again at the same depth, or once at depth 0 to take the
\* layers off
CallAgain(d) ==
    /\ op = "ensure_uniform_depth"
    /\ pc = "returned"
    /\ d = depth \/ history = <<>>
    /\ Len(history) + 1 < MaxCalls
    /\ history' = Append(history, [x |-> x, depth |-> depth, result |-> result])
    /\ x' = result
    /\ depth' = d
    /\ pc' = "entry"
    /\ current_depth' = -1
    /\ work' = Unset
    /\ layers' = 0
    /\ result' = Unset
    /\ UNCHANGED <<wrapper_vars, params, error, probe>>

Next ==
    \/ GetMaxDepth
    \/ IsDepthAtLeast
    \/ RejectNegativeDepth
    \/ InsideOut
    \/ Measure
    \/ WrapShallow
    \/ UnwrapLayer
    \/ UnwrapFails
    \/ ReturnUnwrapped
    \/ FixExact
    \/ \E d \in {depth, 0} : CallAgain(d)

Spec == Init /\ [][Next]_vars

TypeOK ==
    /\ pc \in {"entry", "measured", "unwrapping", "returned", "raised"}
    /\ (pc = "returned") => result # Unset
    /\ (pc = "raised") => IsRaise(error)

(***************************************************************************)
(* One call of a function decorated by enforce_asterisk_args_depth or by   *)
(* enforce_asterisk_args_uniform_depth.                                    *)
(***************************************************************************)
Decorators == {"enforce_asterisk_args_depth", "enforce_asterisk_args_uniform_depth"}

\* the positional arguments of the call: an atom, [[1], [2]], a string and
\* {1: [2]}
ArgValues == {PyInt(1), PyList(<<L1(1), L1(2)>>), PyStr(1), PyDict(<<PyInt(1)>>, <<L1(2)>>)}
SeqsUpTo(S, n) == UNION {[1..m -> S] : m \in 0..n}
KwargsChoices == {PyDict(<<>>, <<>>), PyDict(<<PyStr(3)>>, <<PyList(<<L1(1), L1(2)>>)>>)}

\* the depths a specification names
SpecDepths == {-1, 0, 2}
IntSpecs == {IntSpec(d) : d \in SpecDepths}
ListSpecs == {ListSpec(ds) : ds \in SeqsUpTo(SpecDepths, MaxArgs + 1)}
TupleSpecs == {TupleSpec(<<2>>)}
DictSpecs == {DictSpec(m) : m \in UNION {[S -> SpecDepths] :
                                 S \in {T \in SUBSET (0..MaxArgs) : Cardinality(T) <= 2}}}
DepthSpecs == IntSpecs \cup ListSpecs \cup TupleSpecs \cup DictSpecs

\* the decorator's options: the defaults, and each option set away from its
\* default
DefaultConfig == [inside_out |-> FALSE, depth_of_dict_values |-> FALSE,
                  unwrap_policy |-> "STRICT", str_depth |-> 0, bytes_depth |-> 0]
Configs ==
    {DefaultConfig,
     [DefaultConfig EXCEPT !.inside_out = TRUE],
     [DefaultConfig EXCEPT !.depth_of_dict_values = TRUE],
     [DefaultConfig EXCEPT !.str_depth = 1]}
    \cup {[DefaultConfig EXCEPT !.unwrap_policy = p] : p \in UnwrapPolicy}

\* the decorators a function may already carry when the explored decorator
\* is put on top of it, each with the default options
StackedDecorators ==
    {[op |-> "enforce_asterisk_args_uniform_depth", depth_spec |-> IntSpec(1)],
     [op |-> "enforce_asterisk_args_uniform_depth", depth_spec |-> IntSpec(0)],
     [op |-> "enforce_asterisk_args_depth", depth_spec |-> ListSpec(<<2>>)]}

\* the options of the wrapper being executed
Config == [inside_out |-> inside_out, depth_of_dict_values |-> depth_of_dict_values,
           unwrap_policy |-> unwrap_policy, str_depth |-> str_depth,
           bytes_depth |-> bytes_depth]

\* the wrapper a decorator installs: enforce_asterisk_args_depth hands an int
\* depth to enforce_asterisk_args_uniform_depth
InstalledWrapper(o, spec) ==
    IF o = "enforce_asterisk_args_uniform_depth" \/ spec.t = "int"
    THEN "uniform" ELSE "general"

InitArgs ==
    /\ op \in Decorators
    /\ depth_spec \in (IF op = "enforce_asterisk_args_uniform_depth" THEN IntSpecs
                        ELSE DepthSpecs)
    /\ args \in SeqsUpTo(ArgValues, MaxArgs)
    /\ kwargs \in KwargsChoices
    /\ \E c \in Configs :
          /\ inside_out = c.inside_out
          /\ depth_of_dict_values = c.depth_of_dict_values
          /\ unwrap_policy = c.unwrap_policy
          /\ str_depth = c.str_depth
          /\ bytes_depth = c.bytes_depth
    /\ pc = "decorating"
    /\ wrapper = "none"
    /\ depth_map = <<>>
    /\ new_args = <<>>
    /\ index = 0
    /\ func_calls = <<>>
    /\ below \in (IF op = "enforce_asterisk_args_uniform_depth"
                      /\ Config = DefaultConfig /\ depth_spec.d >= 0
                   THEN SeqsUpTo(StackedDecorators, MaxStacked) ELSE {<<>>})
    /\ frames = <<>>
    /\ result = Unset
    /\ error = Unset
    /\ x = Unset
    /\ depth = 0
    /\ current_depth = -1
    /\ work = Unset
    /\ layers = 0
    /\ probe = Unset
    /\ history = <<>>

\* the decorator factory: enforce_asterisk_args_depth hands an int depth to
\* enforce_asterisk_args_uniform_depth, whose wrapper is then the one called
Decorate ==
    /\ pc = "decorating"
    /\ wrapper' = InstalledWrapper(op, depth_spec)
    /\ pc' = "called"
    /\ UNCHANGED <<engine_vars, below, frames, params, depth_spec, args, kwargs, depth_map, new_args,
                   index, func_calls, result, error>>

\* a variant that rejects a specification holding a negative depth, whatever
\* index it is stored at
GeneralNormalizeChecked ==
    /\ pc = "called"
    /\ wrapper = "general"
    /\ IF depth_spec.t \notin {"int", "list", "dict"}
       THEN /\ error' = _normalize_depth_spec(depth_spec, Len(args))
            /\ pc' = "raised"
            /\ UNCHANGED depth_map
       ELSE IF \E j \in DOMAIN depth_spec.v : depth_spec.v[j] < 0
       THEN /\ error' = ValueError("depth must be >= 0", [depth |-> -1])
            /\ pc' = "raised"
            /\ UNCHANGED depth_map
       ELSE /\ depth_map' = _normalize_depth_spec(depth_spec, Len(args))
            /\ pc' = "coercing"
            /\ UNCHANGED error
    /\ new_args' = <<>>
    /\ index' = 0
    /\ UNCHANGED <<engine_vars, below, frames, params, depth_spec, args, kwargs, wrapper, func_calls, result>>

\* depth_map = _normalize_depth_spec(depth, len(args)); new_args = []
GeneralNormalize ==
    /\ pc = "called"
    /\ wrapper = "general"
    /\ IF depth_spec.t \in {"int", "list", "dict"}
       THEN /\ depth_map' = _normalize_depth_spec(depth_spec, Len(args))
            /\ pc' = "coercing"
            /\ UNCHANGED error
       ELSE /\ error' = _normalize_depth_spec(depth_spec, Len(args))
            /\ pc' = "raised"
            /\ UNCHANGED depth_map
    /\ new_args' = <<>>
    /\ index' = 0
    /\ UNCHANGED <<engine_vars, below, frames, params, depth_spec, args, kwargs, wrapper, func_calls, result>>

\* the coercion of the argument at `index`, with the decorator's options
Coerced(target_depth) ==
    ensure_uniform_depth(args[index + 1], target_depth, inside_out, depth_of_dict_values,
                         unwrap_policy, str_depth, bytes_depth)

\* a variant that lets an argument through when its coercion fails
GeneralCoerceArgLenient ==
    /\ pc = "coercing"
    /\ wrapper = "general"
    /\ index < Len(args)
    /\ index \in DOMAIN depth_map
    /\ new_args' = Append(new_args, IF IsRaise(Coerced(depth_map[index]))
                                     THEN args[index + 1]
                                     ELSE Coerced(depth_map[index]))
    /\ index' = index + 1
    /\ UNCHANGED <<pc, error>>
    /\ UNCHANGED <<engine_vars, below, frames, params, depth_spec, args, kwargs, wrapper, depth_map,
                   func_calls, result>>

\* if i in depth_map: new_args.append(ensure_uniform_depth(arg, depth_map[i], ...))
GeneralCoerceArg ==
    /\ pc = "coercing"
    /\ wrapper = "general"
    /\ index < Len(args)
    /\ index \in DOMAIN depth_map
    /\ IF IsRaise(Coerced(depth_map[index]))
       THEN /\ error' = Coerced(depth_map[index])
            /\ pc' = "raised"
            /\ UNCHANGED <<new_args, index>>
       ELSE /\ new_args' = Append(new_args, Coerced(depth_map[index]))
            /\ index' = index + 1
            /\ UNCHANGED <<pc, error>>
    /\ UNCHANGED <<engine_vars, below, frames, params, depth_spec, args, kwargs, wrapper, depth_map,
                   func_calls, result>>

\* a variant that leaves an unmapped argument out of new_args
GeneralSkipArg ==
    /\ pc = "coercing"
    /\ wrapper = "general"
    /\ index < Len(args)
    /\ index \notin DOMAIN depth_map
    /\ index' = index + 1
    /\ UNCHANGED <<engine_vars, below, frames, params, depth_spec, args, kwargs, wrapper, depth_map,
                   new_args, func_calls, result, error, pc>>

\* else: new_args.append(arg)
GeneralPassArg ==
    /\ pc = "coercing"
    /\ wrapper = "general"
    /\ index < Len(args)
    /\ index \notin DOMAIN depth_map
    /\ new_args' = Append(new_args, args[index + 1])
    /\ index' = index + 1
    /\ UNCHANGED <<engine_vars, below, frames, params, depth_spec, args, kwargs, wrapper, depth_map,
                   func_calls, result, error, pc>>

\* the uniform wrapper starts its list comprehension
UniformEnter ==
    /\ pc = "called"
    /\ wrapper = "uniform"
    /\ new_args' = <<>>
    /\ index' = 0
    /\ pc' = "coercing"
    /\ UNCHANGED <<engine_vars, below, frames, params, depth_spec, args, kwargs, wrapper, depth_map,
                   func_calls, result, error>>

\* a variant that coerces the first argument only
UniformCoerceFirstOnly ==
    /\ pc = "coercing"
    /\ wrapper = "uniform"
    /\ index < Len(args)
    /\ IF index = 0 /\ IsRaise(Coerced(depth_spec.d))
       THEN /\ error' = Coerced(depth_spec.d)
            /\ pc' = "raised"
            /\ UNCHANGED <<new_args, index>>
       ELSE /\ new_args' = Append(new_args, IF index = 0 THEN Coerced(depth_spec.d)
                                            ELSE args[index + 1])
            /\ index' = index + 1
            /\ UNCHANGED <<pc, error>>
    /\ UNCHANGED <<engine_vars, below, frames, params, depth_spec, args, kwargs, wrapper, depth_map,
                   func_calls, result>>

\* [ensure_uniform_depth(arg, depth, ...) for arg in args], one element
UniformCoerceArg ==
    /\ pc = "coercing"
    /\ wrapper = "uniform"
    /\ index < Len(args)
    /\ IF IsRaise(Coerced(depth_spec.d))
       THEN /\ error' = Coerced(depth_spec.d)
            /\ pc' = "raised"
            /\ UNCHANGED <<new_args, index>>
       ELSE /\ new_args' = Append(new_args, Coerced(depth_spec.d))
            /\ index' = index + 1
            /\ UNCHANGED <<pc, error>>
    /\ UNCHANGED <<engine_vars, below, frames, params, depth_spec, args, kwargs, wrapper, depth_map,
                   func_calls, result>>

\* a variant that hands the caller's arguments, not the coerced ones, to the
\* wrapper below
CallInnerWithCallerArgs ==
    /\ pc = "coercing"
    /\ index = Len(args)
    /\ below # <<>>
    /\ frames' = Append(frames, [op |-> op, depth_spec |-> depth_spec, config |-> Config,
                                 wrapper |-> wrapper, depth_map |-> depth_map,
                                 args |-> args, new_args |-> new_args])
    /\ below' = Tail(below)
    /\ op' = Head(below).op
    /\ depth_spec' = Head(below).depth_spec
    /\ inside_out' = DefaultConfig.inside_out
    /\ depth_of_dict_values' = DefaultConfig.depth_of_dict_values
    /\ unwrap_policy' = DefaultConfig.unwrap_policy
    /\ str_depth' = DefaultConfig.str_depth
    /\ bytes_depth' = DefaultConfig.bytes_depth
    /\ wrapper' = InstalledWrapper(Head(below).op, Head(below).depth_spec)
    /\ new_args' = <<>>
    /\ index' = 0
    /\ depth_map' = <<>>
    /\ pc' = "called"
    /\ UNCHANGED <<engine_vars, args, kwargs, func_calls, result, error>>

\* return func(*new_args, **kwargs), func being the wrapper of the decorator
\* below: the call goes on in it with the coerced arguments
CallInner ==
    /\ pc = "coercing"
    /\ index = Len(args)
    /\ below # <<>>
    /\ frames' = Append(frames, [op |-> op, depth_spec |-> depth_spec, config |-> Config,
                                 wrapper |-> wrapper, depth_map |-> depth_map,
                                 args |-> args, new_args |-> new_args])
    /\ below' = Tail(below)
    /\ op' = Head(below).op
    /\ depth_spec' = Head(below).depth_spec
    /\ inside_out' = DefaultConfig.inside_out
    /\ depth_of_dict_values' = DefaultConfig.depth_of_dict_values
    /\ unwrap_policy' = DefaultConfig.unwrap_policy
    /\ str_depth' = DefaultConfig.str_depth
    /\ bytes_depth' = DefaultConfig.bytes_depth
    /\ wrapper' = InstalledWrapper(Head(below).op, Head(below).depth_spec)
    /\ args' = new_args
    /\ new_args' = <<>>
    /\ index' = 0
    /\ depth_map' = <<>>
    /\ pc' = "called"
    /\ UNCHANGED <<engine_vars, kwargs, func_calls, result, error>>

\* the value returned, or the exception raised, below a wrapper leaves that
\* wrapper as it is: back in the caller of the outermost wrapper
LeaveOuterWrappers ==
    /\ pc \in {"returned", "raised"}
    /\ frames # <<>>
    /\ pc' = IF pc = "returned" THEN "returned to caller" ELSE "raised to caller"
    /\ UNCHANGED <<engine_vars, wrapper_vars, params, result, error>>

\* return func(*new_args, **kwargs)
InvokeFunc ==
    /\ pc = "coercing"
    /\ index = Len(args)
    /\ below = <<>>
    /\ func_calls' = Append(func_calls, [args |-> new_args, kwargs |-> kwargs])
    /\ result' = func(new_args, kwargs)
    /\ pc' = "returned"
    /\ UNCHANGED <<engine_vars, below, frames, params, depth_spec, args, kwargs, wrapper, depth_map,
                   new_args, index, error>>

NextArgs ==
    \/ Decorate
    \/ GeneralNormalize
    \/ GeneralCoerceArg
    \/ GeneralPassArg
    \/ UniformEnter
    \/ UniformCoerceArg
    \/ CallInner
    \/ LeaveOuterWrappers
    \/ InvokeFunc

SpecArgs == InitArgs /\ [][NextArgs]_vars

(***************************************************************************)
(* Properties.                                                             *)
(***************************************************************************)
Returned == op = "ensure_uniform_depth" /\ pc = "returned"
Finished == op = "ensure_uniform_depth" /\ pc \in {"returned", "raised"}

\* the steps of a call end where ensure_uniform_depth, taken as one function,
\* says they end
StepsAgreeWithFunction ==
    Finished =>
        LET r == ensure_uniform_depth(x, depth, inside_out, depth_of_dict_values,
                                      unwrap_policy, str_depth, bytes_depth)
        IN  IF pc = "returned" THEN ~IsRaise(r) /\ result = r
            ELSE IsRaise(r) /\ error = r

\* x reaches, through iteration, at least one value that is not a strict container
RECURSIVE HasLeaf(_)
HasLeaf(v) ==
    \/ ~is_strict_container(v)
    \/ \E i \in 1..Len(v.items) : HasLeaf(v.items[i])

C3_SameAsMaxDepth ==
    (op = "is_depth_at_least" /\ pc = "returned") =>
        (probe.ret <=>
            (get_max_depth(x, str_depth, bytes_depth, depth_of_dict_values) >= depth))

\* the calls made so far were all made at the depth of the current one
SameDepthCalls == \A i \in 1..Len(history) : history[i].depth = depth

Atomic(v) ==
    /\ ~is_strict_container(v)
    /\ get_max_depth(v, str_depth, bytes_depth, depth_of_dict_values) = 0

\* C5: an atomic value wrapped d times and unwrapped d times under STRICT is
\* returned unchanged; through the public API in outside-in mode,
\* ensure_uniform_depth(ensure_uniform_depth(v, d), 0) = v.
C5_RoundTrip ==
    /\ (op = "ensure_uniform_depth" /\ Atomic(x) /\ depth >= 0) =>
           _unwrap_to_depth(_wrap_to_depth(x, depth), depth, "STRICT") = x
    /\ (/\ Finished /\ ~inside_out /\ unwrap_policy = "STRICT"
        /\ Len(history) = 1 /\ Atomic(history[1].x) /\ depth = 0)
       => (pc = "returned" /\ result = history[1].x)

C5_Witness ==
    /\ Returned /\ ~inside_out /\ unwrap_policy = "STRICT"
    /\ Len(history) = 1 /\ Atomic(history[1].x) /\ depth = 0
    /\ history[1].depth >= 2
    /\ history[1].x.k = "str"
    /\ x = _wrap_to_depth(history[1].x, history[1].depth)
    /\ result = history[1].x

\* the elements of the children, in iteration order
RECURSIVE Concat(_)
Concat(ss) == IF ss = <<>> THEN <<>> ELSE Head(ss).items \o Concat(Tail(ss))

\* a list of k >= 2 lists that each measure one layer
ListOfSingleLayerLists(v) ==
    /\ v.k = "list"
    /\ Len(v.items) >= 2
    /\ \A i \in 1..Len(v.items) :
          /\ v.items[i].k = "list"
          /\ get_max_depth(v.items[i], str_depth, bytes_depth, depth_of_dict_values) = 1

\* C6: reducing a list of k >= 2 single-layer lists to depth 1 in outside-in
\* mode returns the first child under IGNORE_EXTRA, the concatenation of the
\* children under MERGE, and raises ValueError under STRICT.
C6_PolicyDivergence ==
    (/\ Finished /\ ~inside_out /\ history = <<>>
     /\ depth = 1 /\ ListOfSingleLayerLists(x))
    => /\ unwrap_policy = "IGNORE_EXTRA" => (pc = "returned" /\ result = x.items[1])
       /\ unwrap_policy = "MERGE" => (pc = "returned" /\ result = PyList(Concat(x.items)))
       /\ unwrap_policy = "STRICT" =>
             /\ pc = "raised"
             /\ error.info.cause.msg = "Expected single-item container"
             /\ error.info.cause.info.size = Len(x.items)

C6_Witness ==
    /\ Returned /\ ~inside_out /\ history = <<>>
    /\ depth = 1 /\ unwrap_policy = "MERGE"
    /\ x = PyList(<<L1(1), L1(2), L1(3)>>)
    /\ result = PyList(<<PyInt(1), PyInt(2), PyInt(3)>>)

\* r is v inside exactly n nested single-element lists
RECURSIVE NestedIn(_, _, _)
NestedIn(r, n, v) ==
    IF n <= 0 THEN r = v
    ELSE r.k = "list" /\ Len(r.items) = 1 /\ NestedIn(r.items[1], n - 1, v)

\* C7: in outside-in mode a value measuring c < depth is returned unchanged
\* inside exactly depth - c nested single-element lists; inside-out mode
\* wraps each child of a container of atomic children separately.
C7_WrapWhole ==
    /\ (Returned /\ ~inside_out /\ current_depth < depth) =>
           NestedIn(result, depth - current_depth, x)
    /\ (/\ Returned /\ inside_out /\ depth >= 1
        /\ is_strict_container(x)
        /\ \A i \in 1..Len(x.items) : Atomic(x.items[i]))
       => /\ result.k = "list"
          /\ Len(result.items) = Len(x.items)
          /\ \A i \in 1..Len(x.items) : NestedIn(result.items[i], depth - 1, x.items[i])

C7_Witness ==
    /\ Returned /\ ~inside_out
    /\ x.k \in {"tuple", "set"} /\ Len(x.items) >= 2
    /\ depth = current_depth + 2
    /\ result = PyList(<<PyList(<<x>>)>>)

\* C8: in outside-in mode with current depth c > target t, a failing
\* layer-removal step makes the whole call raise a ValueError 'Cannot reduce
\* depth' that names c and t and carries the cause; no value is returned.
C8_ReduceError ==
    [][(InUnwrapLoop /\ IsRaise(_unwrap_one_layer(LoopValue, unwrap_policy))) =>
          /\ pc' = "raised"
          /\ result' = Unset
          /\ error'.msg = "Cannot reduce depth"
          /\ error'.info.from = get_max_depth(x, str_depth, bytes_depth, depth_of_dict_values)
          /\ error'.info.to = depth
          /\ error'.info.from > error'.info.to
          /\ error'.info.cause = _unwrap_one_layer(LoopValue, unwrap_policy)]_vars

C8_Witness ==
    /\ op = "ensure_uniform_depth" /\ pc = "raised" /\ ~inside_out
    /\ result = Unset
    /\ error.msg = "Cannot reduce depth"
    /\ error.info.from >= error.info.to + 2
    /\ Len(x.items) = 1
    /\ error.info.cause.msg = "Expected single-item container"
    /\ error.info.cause.info.size >= 2

EmptyContainer(v) == is_strict_container(v) /\ Len(v.items) = 0

\* C9 as stated: removing a layer from an empty strict container makes the
\* call raise under every unwrap policy.
C9_Original ==
    [][(InUnwrapLoop /\ EmptyContainer(LoopValue)) => pc' = "raised"]_vars

\* C9 (amended): removing a layer from an empty strict container makes the
\* call raise under STRICT, ERROR_ON_EXTRA and IGNORE_EXTRA; under MERGE the
\* step succeeds and yields a new empty list.
C9_EmptyContainer ==
    [][(InUnwrapLoop /\ EmptyContainer(LoopValue)) =>
          IF unwrap_policy = "MERGE"
          THEN pc' = "unwrapping" /\ work' = PyList(<<>>)
          ELSE /\ pc' = "raised"
               /\ error'.info.cause.msg \in
                      {"Expected single-item container", "Cannot unwrap empty container"}
               /\ error'.info.cause.info.size = 0]_vars

C9_Witness ==
    /\ op = "ensure_uniform_depth" /\ pc = "raised" /\ ~inside_out
    /\ history = <<>>
    /\ x = PyList(<<PyList(<<>>)>>) /\ depth = 0
    /\ unwrap_policy = "STRICT"
    /\ error.info.cause.info.size = 0

\* C10: for every depth < 0 ensure_uniform_depth raises ValueError 'depth
\* must be >= 0', in both modes and under every policy, before x is measured,
\* wrapped or unwrapped.
C10_NegativeDepth ==
    /\ []((op = "ensure_uniform_depth" /\ depth < 0) =>
             /\ pc \in {"entry", "raised"}
             /\ current_depth = -1 /\ work = Unset /\ result = Unset
             /\ pc = "raised" =>
                    (error.msg = "depth must be >= 0" /\ error.info.depth = depth))
    /\ [][(op = "ensure_uniform_depth" /\ depth < 0 /\ pc = "entry") =>
             pc' = "raised"]_vars

C10_Witness ==
    /\ op = "ensure_uniform_depth" /\ pc = "raised"
    /\ depth < 0
    /\ inside_out
    /\ is_strict_container(x)
    /\ error.msg = "depth must be >= 0"

\* no exception object anywhere in a value
RECURSIVE NoRaiseIn(_)
NoRaiseIn(v) ==
    /\ ~IsRaise(v)
    /\ is_strict_container(v) => \A i \in 1..Len(v.items) : NoRaiseIn(v.items[i])

\* C11: in inside-out mode ensure_uniform_depth never raises for any value
\* and any depth >= 0: every call returns a result.
C11_InsideOutNeverRaises ==
    /\ []((op = "ensure_uniform_depth" /\ inside_out /\ depth >= 0) =>
             /\ pc \in {"entry", "returned"}
             /\ error = Unset
             /\ pc = "returned" => NoRaiseIn(result))
    /\ [][(op = "ensure_uniform_depth" /\ inside_out /\ depth >= 0 /\ pc = "entry") =>
             pc' = "returned"]_vars

C11_Witness ==
    /\ Returned /\ inside_out
    /\ depth >= 1
    /\ get_max_depth(x, str_depth, bytes_depth, FALSE) > depth
    /\ Len(x.items) >= 2
    /\ x.items[1].k # x.items[2].k

\* the invocations spent on the first n children of a scan for depth d
RECURSIVE CallsOnPrefix(_, _, _)
CallsOnPrefix(items, n, d) ==
    IF n = 0 THEN 0
    ELSE CallsOnPrefix(items, n - 1, d)
         + is_depth_at_least_run(items[n], d - 1, str_depth, bytes_depth,
                                 depth_of_dict_values).calls

\* [[1], [[[[[1]]]]]]
ShortCircuitExample == PyList(<<L1(1), _wrap_to_depth(PyInt(1), 5)>>)

\* C17: is_depth_at_least visits the children in iteration order and stops at
\* the first child that satisfies the remaining depth: its invocations are
\* its own plus those spent on the children up to and including that child,
\* none on a later sibling; on [[1],[[[[[1]]]]]] with depth 2 it answers True
\* after exactly 3 invocations.
C17_ShortCircuit ==
    (op = "is_depth_at_least" /\ pc = "returned") =>
        /\ (x = ShortCircuitExample /\ depth = 2) => probe = [ret |-> TRUE, calls |-> 3]
        /\ (depth > 0 /\ is_strict_container(x)) =>
              LET items == IF x.k = "dict" /\ depth_of_dict_values THEN x.vals ELSE x.items
                  hits == {i \in 1..Len(items) :
                              is_depth_at_least(items[i], depth - 1, str_depth, bytes_depth,
                                                depth_of_dict_values)}
              IN  IF hits = {}
                  THEN /\ ~probe.ret
                       /\ probe.calls = 1 + CallsOnPrefix(items, Len(items), depth)
                  ELSE LET first == CHOOSE i \in hits : \A j \in hits : i <= j
                       IN  /\ probe.ret
                           /\ probe.calls = 1 + CallsOnPrefix(items, first, depth)

C17_Witness ==
    /\ op = "is_depth_at_least" /\ pc = "returned"
    /\ x = ShortCircuitExample /\ depth = 2
    /\ probe.ret /\ probe.calls = 3

\* the items the reference recursion reads: a dict's values when
\* depth_of_dict_values is set, its keys otherwise
ReferenceItems(v) == IF v.k = "dict" /\ depth_of_dict_values THEN v.vals ELSE v.items

\* no empty strict container on the way down
RECURSIVE NonEmptyThroughout(_)
NonEmptyThroughout(v) ==
    is_strict_container(v) =>
        /\ ReferenceItems(v) # <<>>
        /\ \A i \in 1..Len(ReferenceItems(v)) : NonEmptyThroughout(ReferenceItems(v)[i])

\* the reference recursion, as a relation: v measures n
RECURSIVE Measures(_, _)
Measures(v, n) ==
    IF v.k = "str" THEN n = str_depth
    ELSE IF v.k = "bytes" THEN n = bytes_depth
    ELSE IF ~is_strict_container(v) THEN n = 0
    ELSE LET items == ReferenceItems(v)
         IN  /\ n >= 1
             /\ \E i \in 1..Len(items) : Measures(items[i], n - 1)
             /\ \A i \in 1..Len(items) : \E m \in 0..(n - 1) : Measures(items[i], m)

\* C18: get_max_depth is str_depth for a string, bytes_depth for bytes, 0 for
\* any other non-container, and for a non-empty strict container 1 + the
\* maximum over its items, the items of every dict at every level being its
\* values when depth_of_dict_values is set and its keys otherwise.
C18_ReferenceRecursion ==
    (op = "get_max_depth" /\ pc = "returned") =>
        /\ NonEmptyThroughout(x) => Measures(x, result.a)
        /\ (is_strict_container(x) /\ ReferenceItems(x) # <<>>) =>
              /\ \E i \in 1..Len(ReferenceItems(x)) :
                    result.a = 1 + get_max_depth(ReferenceItems(x)[i], str_depth,
                                                 bytes_depth, depth_of_dict_values)
              /\ \A i \in 1..Len(ReferenceItems(x)) :
                    result.a >= 1 + get_max_depth(ReferenceItems(x)[i], str_depth,
                                                  bytes_depth, depth_of_dict_values)

\* a dict nested in a list, measured over its values
C18_Witness ==
    /\ op = "get_max_depth" /\ pc = "returned"
    /\ depth_of_dict_values
    /\ x.k = "list" /\ Len(x.items) >= 1
    /\ x.items[1].k = "dict"
    /\ NonEmptyThroughout(x)
    /\ result.a >= 3

\* C19 as stated: get_max_depth of an empty strict container is 0.
C19_Original ==
    (op = "get_max_depth" /\ pc = "returned" /\ EmptyContainer(x)) => result.a = 0

\* C19: get_max_depth of an empty strict container ([], (), set(), {}) is 1
\* under every option setting: the layer counts, its max over no children
\* defaults to 0; a value measures 0 only when it is not a strict container.
C19_EmptyContainerDepth ==
    (op = "get_max_depth" /\ pc = "returned") =>
        /\ EmptyContainer(x) => result.a = 1
        /\ is_strict_container(x) => result.a >= 1

C19_Witness ==
    /\ op = "get_max_depth" /\ pc = "returned"
    /\ x = PyDict(<<>>, <<>>)
    /\ depth_of_dict_values
    /\ result.a = 1

\* the chain of first items ended before n layers were removed
NoFirstItem == [k |-> "no first item"]

\* the value reached by following the first item of each layer n times
RECURSIVE FollowFirst(_, _)
FollowFirst(v, n) ==
    IF n = 0 THEN v
    ELSE IF ~is_strict_container(v) \/ v.items = <<>> THEN NoFirstItem
    ELSE FollowFirst(v.items[1], n - 1)

\* C20: under IGNORE_EXTRA in outside-in mode with current depth c > target
\* t, the result is the value reached by following the first item of each
\* successive layer c - t times; the call fails only when that chain meets an
\* empty container or a non-container before c - t layers are removed.
C20_FirstItemChain ==
    (Finished /\ ~inside_out /\ unwrap_policy = "IGNORE_EXTRA"
              /\ depth >= 0 /\ current_depth > depth) =>
        LET r == FollowFirst(x, current_depth - depth)
        IN  IF r = NoFirstItem
            THEN /\ pc = "raised"
                 /\ error.info.cause.msg \in {"Cannot unwrap empty container",
                                               "Cannot unwrap non-container object"}
            ELSE /\ pc = "returned"
                 /\ result = r

\* two layers removed, the later siblings of the outer layer discarded
C20_Witness ==
    /\ Returned /\ ~inside_out /\ unwrap_policy = "IGNORE_EXTRA"
    /\ depth >= 0 /\ current_depth >= depth + 2
    /\ Len(x.items) >= 2
    /\ result = x.items[1].items[1]

(***************************************************************************)
(* Properties of the decorators.                                           *)
(***************************************************************************)
WrapperFinished == op \in Decorators /\ pc \in {"returned", "raised"}

\* ensure_uniform_depth applied to the i-th positional argument (from 0)
CoercedArg(i, d) ==
    ensure_uniform_depth(args[i + 1], d, inside_out, depth_of_dict_values,
                         unwrap_policy, str_depth, bytes_depth)

\* what the caller and the decorated function have seen of the call
Outcome == [pc |-> pc, seen |-> func_calls, result |-> result, error |-> error]

\* the outcome of coercing, left to right, the arguments whose index is in
\* the mapping m and calling the function with the rest unchanged
RECURSIVE MappingOutcome(_, _, _)
MappingOutcome(m, i, acc) ==
    IF i = Len(args)
    THEN [pc |-> "returned", seen |-> <<[args |-> acc, kwargs |-> kwargs]>>,
          result |-> func(acc, kwargs), error |-> Unset]
    ELSE IF i \notin DOMAIN m THEN MappingOutcome(m, i + 1, Append(acc, args[i + 1]))
    ELSE IF IsRaise(CoercedArg(i, m[i]))
    THEN [pc |-> "raised", seen |-> <<>>, result |-> Unset, error |-> CoercedArg(i, m[i])]
    ELSE MappingOutcome(m, i + 1, Append(acc, CoercedArg(i, m[i])))

\* the arguments the installed wrapper coerces, and the depth of each
SelectedArgs ==
    IF wrapper = "uniform" THEN 0..(Len(args) - 1)
    ELSE {i \in DOMAIN depth_map : i < Len(args)}
TargetOf(i) == IF wrapper = "uniform" THEN depth_spec.d ELSE depth_map[i]

\* C12: under both decorators, when the coercion of a positional argument
\* raises, the wrapped function is never invoked for that call and the error
\* reaches the caller; the function is invoked only after every argument
\* selected for coercion has been coerced successfully.
C12_NoCallAfterFailedCoercion ==
    /\ []((op \in Decorators /\ pc = "raised") =>
             /\ func_calls = <<>>
             /\ result = Unset
             /\ error.k \in {"ValueError", "TypeError"})
    /\ [](WrapperFinished =>
             ((\E i \in SelectedArgs : IsRaise(CoercedArg(i, TargetOf(i)))) =>
                 /\ pc = "raised"
                 /\ \E i \in SelectedArgs : error = CoercedArg(i, TargetOf(i))))
    /\ [][(func_calls' # func_calls) =>
             /\ func_calls = <<>>
             /\ Len(new_args) = Len(args)
             /\ \A i \in SelectedArgs :
                   /\ ~IsRaise(CoercedArg(i, TargetOf(i)))
                   /\ new_args[i + 1] = CoercedArg(i, TargetOf(i))]_vars

\* a later argument fails after an earlier one was coerced
C12_Witness ==
    /\ op \in Decorators /\ pc = "raised"
    /\ wrapper = "general"
    /\ index >= 1
    /\ new_args # <<>> /\ new_args[1] # args[1]
    /\ IsRaise(error)
    /\ func_calls = <<>>

\* C13: for every integer depth d, every option setting and every call,
\* enforce_asterisk_args_depth(d) installs the uniform wrapper, and its
\* outcome (arguments seen by the function, return value or error) is the
\* outcome of the mapping path with {i: d} for every argument index i, under
\* either decorator.
C13_IntFastPath ==
    (WrapperFinished /\ depth_spec.t = "int") =>
        /\ wrapper = "uniform"
        /\ Outcome = MappingOutcome([i \in 0..(Len(args) - 1) |-> depth_spec.d], 0, <<>>)
        /\ Outcome = MappingOutcome(_normalize_depth_spec(depth_spec, Len(args)), 0, <<>>)

C13_Witness ==
    /\ op = "enforce_asterisk_args_depth" /\ pc = "returned"
    /\ depth_spec.t = "int"
    /\ Len(args) = MaxArgs
    /\ kwargs # PyDict(<<>>, <<>>)
    /\ \A i \in 1..Len(args) : func_calls[1].args[i] # args[i]

\* C14: every positional argument whose index is absent from the depth
\* mapping reaches the wrapped function unchanged and in its position, every
\* keyword argument reaches it unchanged under either decorator, and the
\* function's return value is returned unchanged.
C14_PassThrough ==
    (op \in Decorators /\ pc = "returned") =>
        /\ Len(func_calls) = 1
        /\ func_calls[1].kwargs = kwargs
        /\ Len(func_calls[1].args) = Len(args)
        /\ wrapper = "general" =>
              \A i \in 0..(Len(args) - 1) :
                  i \notin DOMAIN _normalize_depth_spec(depth_spec, Len(args)) =>
                      func_calls[1].args[i + 1] = args[i + 1]
        /\ result = func(func_calls[1].args, func_calls[1].kwargs)

\* an unmapped [[1], [2]] next to a coerced argument, with a keyword argument
C14_Witness ==
    /\ op \in Decorators /\ pc = "returned"
    /\ wrapper = "general"
    /\ kwargs # PyDict(<<>>, <<>>)
    /\ Len(args) = 2
    /\ 0 \in DOMAIN depth_map /\ 1 \notin DOMAIN depth_map
    /\ func_calls[1].args[1] # args[1]
    /\ args[2] = PyList(<<L1(1), L1(2)>>)
    /\ func_calls[1].args[2] = args[2]

\* C15 as stated: with an ordered sequence of k integers and n positional
\* arguments, argument i is coerced to the i-th element for i < min(k, n) and
\* arguments k..n-1 pass through untouched without any error.
C15_OrderedSequence ==
    (WrapperFinished /\ depth_spec.t \in {"list", "tuple"}) =>
        LET k == Len(depth_spec.v)
            n == Len(args)
            both == {i \in 0..(n - 1) : i < k}
        IN  /\ pc = "returned" =>
                  /\ \A i \in both : func_calls[1].args[i + 1] = CoercedArg(i, depth_spec.v[i + 1])
                  /\ \A i \in (0..(n - 1)) \ both : func_calls[1].args[i + 1] = args[i + 1]
            /\ pc = "raised" =>
                  \E i \in both : /\ IsRaise(CoercedArg(i, depth_spec.v[i + 1]))
                                   /\ error = CoercedArg(i, depth_spec.v[i + 1])

RECURSIVE RebuildOf(_, _, _)
RebuildOf(v, r, rem) ==
    IF rem = 0 THEN r = v
    ELSE IF is_strict_container(v)
    THEN /\ r.k = "list"
         /\ Len(r.items) = Len(v.items)
         /\ \A i \in 1..Len(v.items) : RebuildOf(v.items[i], r.items[i], rem - 1)
    ELSE \E n \in 0..rem : NestedIn(r, n, v)

\* C21: whenever ensure_uniform_depth rebuilds a container (inside-out mode
\* above remaining depth 0, and the exact-depth validation of outside-in
\* mode), the rebuilt layer is a list with the same number of elements in the
\* original iteration order whatever the original kind was, a dict
\* contributing its keys; atomic children are passed through unchanged and
\* the input value is not modified.
C21_RebuildAsList ==
    /\ []((Returned /\ depth >= 0 /\ (inside_out \/ current_depth = depth)) =>
             RebuildOf(x, result, depth))
    /\ [][(op = "ensure_uniform_depth" /\ pc # "returned") => x' = x]_vars

\* a tuple, a set or a dict of several items rebuilt as a list
C21_Witness ==
    /\ Returned /\ depth >= 1
    /\ inside_out \/ current_depth = depth
    /\ x.k \in {"tuple", "set", "dict"}
    /\ Len(x.items) >= 2
    /\ result.k = "list"
    /\ Len(result.items) = Len(x.items)

\* the validation of v, with r layers left, reaches remaining depth 0 at a
\* strict container
RECURSIVE MeetsContainerAtZero(_, _)
MeetsContainerAtZero(v, r) ==
    /\ is_strict_container(v)
    /\ r > 0 => \E i \in 1..Len(v.items) : MeetsContainerAtZero(v.items[i], r - 1)

\* C22: in outside-in mode when the measured depth equals the target, if the
\* recursive validation reaches remaining depth 0 at a value that is a strict
\* container, the call fails with a structural-mismatch error instead of
\* returning that container.
C22_ContainerAtDepthZero ==
    (Finished /\ ~inside_out /\ depth >= 0 /\ current_depth = depth
        /\ MeetsContainerAtZero(x, depth)) =>
        /\ pc = "raised"
        /\ error.msg = "Invalid structure"

\* the values the validation of v meets with r > 0 layers left that are
\* neither a strict container nor a string/bytes configured as a leaf of
\* depth 1 met at r = 1, each with the remaining depth it is met at
RECURSIVE Offenders(_, _)
Offenders(v, r) ==
    IF r = 0 THEN {}
    ELSE IF v.k = "str" /\ str_depth = 1 /\ r = 1 THEN {}
    ELSE IF v.k = "bytes" /\ bytes_depth = 1 /\ r = 1 THEN {}
    ELSE IF ~is_strict_container(v) THEN {[depth |-> r, type |-> type_name(v)]}
    ELSE UNION {Offenders(v.items[i], r - 1) : i \in 1..Len(v.items)}

\* C23: in outside-in mode when the measured depth equals the target d > 0,
\* the call succeeds only if every element met at remaining depth r > 0 is a
\* strict container (or a string/bytes with configured leaf depth 1 at
\* r = 1); any other value met at remaining depth r > 0 makes the call raise
\* ValueError 'Invalid structure' naming r and the encountered type.
C23_InvalidStructure ==
    (Finished /\ ~inside_out /\ depth > 0 /\ current_depth = depth) =>
        IF Offenders(x, depth) = {}
        THEN pc = "returned"
        ELSE /\ pc = "raised"
             /\ result = Unset
             /\ error.msg = "Invalid structure"
             /\ error.info \in Offenders(x, depth)

\* the 1 of [1, [2]] or [[2], 1], met with one layer left
C23_Witness ==
    /\ op = "ensure_uniform_depth" /\ pc = "raised" /\ ~inside_out
    /\ depth = 2 /\ current_depth = 2
    /\ Len(x.items) = 2
    /\ error.msg = "Invalid structure"
    /\ error.info = [depth |-> 1, type |-> "int"]

\* the string and bytes values reached through the containers of v (through
\* the keys and the values of a dict)
RECURSIVE StringsIn(_)
StringsIn(v) ==
    IF v.k \in {"str", "bytes"} THEN {v}
    ELSE IF ~is_strict_container(v) THEN {}
    ELSE UNION ({StringsIn(v.items[i]) : i \in 1..Len(v.items)}
                \cup (IF v.k = "dict"
                      THEN {StringsIn(v.vals[i]) : i \in 1..Len(v.vals)} ELSE {}))

\* C24: no operation decomposes a string or bytes value into its elements:
\* get_max_depth and is_depth_at_least answer for it without visiting
\* anything below it, every string in a result of ensure_uniform_depth (both
\* modes, every unwrap policy, MERGE included) is a whole string of the
\* input, and with str_depth = 1 a string at target 1 is returned as it is
\* and at target 2 inside one list, in both modes.
C24_StringsAreOpaque ==
    /\ (op = "get_max_depth" /\ pc = "returned" /\ x.k \in {"str", "bytes"}) =>
          result.a = IF x.k = "str" THEN str_depth ELSE bytes_depth
    /\ (op = "is_depth_at_least" /\ pc = "returned" /\ x.k \in {"str", "bytes"}) =>
          probe.calls = 1
    /\ Returned => StringsIn(result) \subseteq StringsIn(x)
    /\ (Returned /\ x.k = "str" /\ str_depth = 1) =>
          /\ depth = 1 => result = x
          /\ depth = 2 => result = PyList(<<x>>)
    /\ (Returned /\ x.k = "bytes" /\ bytes_depth = 1) =>
          /\ depth = 1 => result = x
          /\ depth = 2 => result = PyList(<<x>>)

\* MERGE takes a layer off a list that holds a string next to a list
C24_Witness ==
    /\ Returned /\ ~inside_out /\ unwrap_policy = "MERGE"
    /\ current_depth > depth
    /\ Len(x.items) >= 2
    /\ \E i \in 1..Len(x.items) : x.items[i].k = "str" /\ x.items[i] \in StringsIn(result)
    /\ \E i \in 1..Len(x.items) : is_strict_container(x.items[i])

LeafOfDepthOne(v) ==
    \/ v.k = "str" /\ str_depth = 1
    \/ v.k = "bytes" /\ bytes_depth = 1

\* C26: for every string with str_depth = 1 (and every bytes value with
\* bytes_depth = 1), ensure_uniform_depth(s, 0, inside_out=False) raises
\* ValueError under every unwrap policy, the measured depth 1 exceeding the
\* target and a string being no container to unwrap; with inside_out=True
\* the same call returns s unchanged.
C26_LeafToDepthZero ==
    (Finished /\ depth = 0 /\ LeafOfDepthOne(x)) =>
        IF inside_out
        THEN pc = "returned" /\ result = x
        ELSE /\ pc = "raised"
             /\ result = Unset
             /\ error.msg = "Cannot reduce depth"
             /\ error.info.from = 1 /\ error.info.to = 0
             /\ error.info.cause.msg = "Cannot unwrap non-container object"
             /\ error.info.cause.info.type = x.k

C26_Witness ==
    /\ op = "ensure_uniform_depth" /\ pc = "raised"
    /\ ~inside_out /\ unwrap_policy = "MERGE"
    /\ x.k = "str" /\ str_depth = 1 /\ depth = 0
    /\ error.info.cause.info.type = "str"

\* C27: with depth_of_dict_values=True in outside-in mode the depth is
\* measured over dict values but the exact-depth validation iterates dict
\* keys: for every dict whose keys are all atomic and which has at least one
\* strict-container value, a call with the target equal to the measured
\* depth raises ValueError 'Invalid structure' instead of returning a value
\* of that depth.
C27_DictKeysValidated ==
    (Finished /\ ~inside_out /\ depth_of_dict_values /\ depth >= 0
        /\ x.k = "dict"
        /\ (\A i \in 1..Len(x.items) : Atomic(x.items[i]))
        /\ (\E i \in 1..Len(x.vals) : is_strict_container(x.vals[i]))
        /\ depth = get_max_depth(x, str_depth, bytes_depth, TRUE)) =>
        /\ pc = "raised"
        /\ result = Unset
        /\ error.msg = "Invalid structure"
        /\ error.info = [depth |-> depth - 1, type |-> type_name(x.items[1])]

\* {'a': [1, 2], 'b': [3, 4]} at target 2
C27_Witness ==
    /\ op = "ensure_uniform_depth" /\ pc = "raised"
    /\ ~inside_out /\ depth_of_dict_values
    /\ x.k = "dict" /\ Len(x.items) = 2
    /\ depth = 2 /\ current_depth = 2
    /\ error.msg = "Invalid structure"
    /\ error.info.type = "str"

\* C28: in inside-out mode the result of ensure_uniform_depth depends only
\* on (x, depth, str_depth, bytes_depth): a call that differs only in
\* unwrap_policy and/or depth_of_dict_values returns an equal result, and a
\* dict is rebuilt from its keys even when depth_of_dict_values is True.
C28_InsideOutIgnoresPolicy ==
    (Returned /\ inside_out) =>
        /\ \A p \in UnwrapPolicy : \A dv \in BOOLEAN :
              result = ensure_uniform_depth(x, depth, TRUE, dv, p, str_depth, bytes_depth)
        /\ (x.k = "dict" /\ depth >= 1) =>
              /\ result.k = "list"
              /\ Len(result.items) = Len(x.items)
              /\ \A i \in 1..Len(x.items) :
                    result.items[i] = ensure_uniform_depth(x.items[i], depth - 1, TRUE, FALSE,
                                                           "STRICT", str_depth, bytes_depth)

\* a dict with a container value, the options away from their defaults
C28_Witness ==
    /\ Returned /\ inside_out
    /\ depth_of_dict_values /\ unwrap_policy = "MERGE"
    /\ x.k = "dict" /\ Len(x.items) >= 1
    /\ is_strict_container(x.vals[1])
    /\ depth >= 2
    /\ result = PyList([i \in 1..Len(x.items) |-> _wrap_to_depth(x.items[i], depth - 1)])

\* no empty strict container in v, v included
RECURSIVE HasNoEmpty(_)
HasNoEmpty(v) ==
    is_strict_container(v) =>
        /\ v.items # <<>>
        /\ \A i \in 1..Len(v.items) : HasNoEmpty(v.items[i])

\* the nesting depths of the non-container leaves of v, v being at depth l
RECURSIVE LeafDepths(_, _)
LeafDepths(v, l) ==
    IF ~is_strict_container(v) THEN {l}
    ELSE UNION {LeafDepths(v.items[i], l + 1) : i \in 1..Len(v.items)}

FailingArgs == {i \in SelectedArgs : IsRaise(CoercedArg(i, TargetOf(i)))}

\* what the wrapper has to put at position i of new_args
ExpectedArg(i) ==
    IF i \in SelectedArgs THEN CoercedArg(i, TargetOf(i)) ELSE args[i + 1]

\* what the suspended wrapper f makes of its i-th argument
OuterCoerced(f, i) ==
    LET coerced(d) ==
            ensure_uniform_depth(f.args[i + 1], d, f.config.inside_out,
                                 f.config.depth_of_dict_values, f.config.unwrap_policy,
                                 f.config.str_depth, f.config.bytes_depth)
    IN  IF f.wrapper = "uniform" THEN coerced(f.depth_spec.d)
        ELSE IF i \in DOMAIN f.depth_map THEN coerced(f.depth_map[i])
        ELSE f.args[i + 1]

\* C30: both decorators coerce the positional arguments one index after the
\* other from 0 upwards and call the wrapped function exactly once per
\* successful call, after the last coercion; when a coercion fails, the error
\* that propagates is that of the lowest failing index and no later argument
\* is processed. Under stacked decorators the outer coercion comes first and
\* the inner one works on its output: depth 2 outside and depth 1 inside turn
\* 'x' into ['x'].
C30_LeftToRightThenOneCall ==
    /\ []((op \in Decorators /\ pc = "coercing") =>
             /\ Len(new_args) = index
             /\ index <= Len(args)
             /\ \A j \in 0..(index - 1) : new_args[j + 1] = ExpectedArg(j))
    /\ [][(pc = "coercing" /\ (new_args' # new_args \/ index' # index) /\ pc' = "coercing") =>
             /\ index' = index + 1
             /\ new_args' = Append(new_args, ExpectedArg(index))]_vars
    /\ [][(func_calls' # func_calls) =>
             /\ pc = "coercing" /\ index = Len(args) /\ below = <<>>
             /\ func_calls = <<>>
             /\ func_calls' = <<[args |-> new_args, kwargs |-> kwargs]>>
             /\ pc' = "returned"]_vars
    /\ []((op \in Decorators /\ pc \in {"returned", "returned to caller"}) =>
             /\ Len(func_calls) = 1
             /\ FailingArgs = {})
    /\ []((WrapperFinished /\ FailingArgs # {}) =>
             /\ pc = "raised"
             /\ index \in FailingArgs
             /\ \A j \in FailingArgs : index <= j
             /\ error = CoercedArg(index, TargetOf(index))
             /\ Len(new_args) = index
             /\ func_calls = <<>>)
    /\ [][(pc \in {"raised", "raised to caller"}) =>
             (new_args' = new_args /\ index' = index /\ error' = error
              /\ func_calls' = func_calls)]_vars
    /\ []((op \in Decorators /\ frames # <<>>) =>
             LET outer == frames[Len(frames)] IN
             /\ Len(outer.new_args) = Len(outer.args)
             /\ args = outer.new_args
             /\ \A i \in 0..(Len(outer.args) - 1) :
                   /\ ~IsRaise(OuterCoerced(outer, i))
                   /\ args[i + 1] = OuterCoerced(outer, i)
             /\ (pc \in {"returned", "returned to caller"}) =>
                   \A i \in SelectedArgs :
                       func_calls[1].args[i + 1] =
                           ensure_uniform_depth(OuterCoerced(outer, i), TargetOf(i),
                                                inside_out, depth_of_dict_values,
                                                unwrap_policy, str_depth, bytes_depth))
    /\ []((/\ op \in Decorators /\ Len(frames) = 1
           /\ pc = "returned"
           /\ frames[1].depth_spec = IntSpec(2)
           /\ depth_spec = IntSpec(1)
           /\ wrapper = "uniform"
           /\ frames[1].args = <<PyStr(1)>>) =>
             func_calls = <<[args |-> <<PyList(<<PyStr(1)>>)>>, kwargs |-> kwargs]>>)

\* depth 2 outside, depth 1 inside: the string went through [['x']] and the
\* function saw ['x']
C30_Witness ==
    /\ op \in Decorators /\ pc = "returned"
    /\ Len(frames) = 1
    /\ frames[1].depth_spec = IntSpec(2)
    /\ frames[1].args = <<PyStr(1)>>
    /\ args = <<PyList(<<PyList(<<PyStr(1)>>)>>)>>
    /\ depth_spec = IntSpec(1)
    /\ func_calls = <<[args |-> <<PyList(<<PyStr(1)>>)>>, kwargs |-> kwargs]>>

\* two arguments would fail with different errors and the first one's is raised
C30_SeveralWouldFail ==
    /\ op \in Decorators /\ pc = "raised"
    /\ Len(args) = 2
    /\ FailingArgs = {0, 1}
    /\ CoercedArg(0, TargetOf(0)) # CoercedArg(1, TargetOf(1))
    /\ error = CoercedArg(0, TargetOf(0))
    /\ index = 0

====
